---- MODULE Spec2Model ----
(***************************************************************************)
(* Model of metaboss src/utils.rs: the error-registry generator            *)
(* convert_to_wtf_error, the multi-domain lookup find_errors, and the      *)
(* priority-fee computation calculate_priority_fees.                       *)
(*                                                                         *)
(* Rust strings are modelled as TLA+ strings (ASCII only, so byte offsets  *)
(* and character offsets coincide); the str methods the code calls are     *)
(* the operators of the first section, written from their documented       *)
(* behaviour.  The override literals and fees tried are far below the      *)
(* i64 and u64 limits, so no addition or multiplication of the model       *)
(* overflows.                                                              *)
(***************************************************************************)
EXTENDS Integers, Sequences, FiniteSets, TLC

VARIABLES
    \* ---- convert_to_wtf_error
    file_name,              \* argument
    file_contents,          \* argument
    pc,                     \* position in convert_to_wtf_error
    file_name_capitalized,  \* local, line 158
    enum_name,              \* local, line 176
    error_contents,         \* local, line 164: the rendered mapping under construction
    starting_error_number,  \* local, line 168: the running code counter
    parsed_error_line,      \* local, line 209: the pending buffer
    error_lines,            \* local, line 204: the lines not yet iterated
    result,                 \* what the call returned
    processed,              \* history: the trimmed lines the loop body has run on
    pushes,                 \* history: one record per push_str of line 255
    \* ---- find_errors
    catalog,                \* the seven static tables of crate::wtf_errors
    hex_code,               \* argument of the last find_errors call
    found_errors,           \* its return value
    lpc,                    \* whether find_errors has returned
    \* ---- calculate_priority_fees
    fpc,                    \* position in calculate_priority_fees
    compute_units,          \* line 33
    max_fee,                \* line 46
    priority_fee_lamports,  \* line 52
    confirmation,           \* line 55
    fee_result              \* what the call returned

parserVars == <<file_name, file_contents, pc, file_name_capitalized, enum_name,
                error_contents, starting_error_number, parsed_error_line,
                error_lines, result, processed, pushes>>
lookupVars == <<catalog, hex_code, found_errors, lpc>>
feeVars == <<fpc, compute_units, max_fee, priority_fee_lamports, confirmation,
             fee_result>>
vars == <<parserVars, lookupVars, feeVars>>

-----------------------------------------------------------------------------
(* Rust str / String methods *)

None == -1

Max(a, b) == IF a >= b THEN a ELSE b

\* s[from..] with 0-based byte offset `from`
SliceFrom(s, from) == SubSeq(s, from + 1, Len(s))
\* s[..to]
SliceTo(s, to) == SubSeq(s, 1, to)

\* str::starts_with
StartsWith(s, p) == Len(p) <= Len(s) /\ SubSeq(s, 1, Len(p)) = p
\* str::ends_with
EndsWith(s, p) == Len(p) <= Len(s) /\ SubSeq(s, Len(s) - Len(p) + 1, Len(s)) = p

\* str::find: the 0-based offset of the first occurrence, or None
Find(s, p) ==
    LET hits == {i \in 0..(Len(s) - Len(p)) : SubSeq(s, i + 1, i + Len(p)) = p}
    IN IF hits = {} THEN None ELSE CHOOSE i \in hits : \A j \in hits : i <= j

\* str::contains
Contains(s, p) == Find(s, p) # None

\* str::replace: every non-overlapping occurrence, left to right
RECURSIVE Replace(_, _, _)
Replace(s, from, to) ==
    LET i == Find(s, from)
    IN IF i = None THEN s
       ELSE SliceTo(s, i) \o to \o Replace(SliceFrom(s, i + Len(from)), from, to)

\* str::split on a one-character separator: always at least one piece
RECURSIVE Split(_, _)
Split(s, sep) ==
    LET i == Find(s, sep)
    IN IF i = None THEN <<s>>
       ELSE <<SliceTo(s, i)>> \o Split(SliceFrom(s, i + 1), sep)

\* [String]::join
RECURSIVE Join(_, _)
Join(parts, sep) ==
    IF Len(parts) = 0 THEN ""
    ELSE IF Len(parts) = 1 THEN parts[1]
    ELSE parts[1] \o sep \o Join(Tail(parts), sep)

WhiteSpace == {" ", "\t", "\n", "\r"}

RECURSIVE TrimStart(_)
TrimStart(s) ==
    IF Len(s) > 0 /\ SubSeq(s, 1, 1) \in WhiteSpace THEN TrimStart(SliceFrom(s, 1)) ELSE s

RECURSIVE TrimEnd(_)
TrimEnd(s) ==
    IF Len(s) > 0 /\ SubSeq(s, Len(s), Len(s)) \in WhiteSpace
    THEN TrimEnd(SliceTo(s, Len(s) - 1)) ELSE s

\* str::trim
Trim(s) == TrimEnd(TrimStart(s))

\* one line of str::lines: a trailing carriage return is not part of the line
StripCr(l) == IF EndsWith(l, "\r") THEN SliceTo(l, Len(l) - 1) ELSE l

\* str::lines: split at line feeds; a final line feed starts no further line
RECURSIVE Lines(_)
Lines(s) ==
    IF Len(s) = 0 THEN <<>>
    ELSE LET i == Find(s, "\n")
         IN IF i = None THEN <<StripCr(s)>>
            ELSE <<StripCr(SliceTo(s, i))>> \o Lines(SliceFrom(s, i + 1))

LowerCase == "abcdefghijklmnopqrstuvwxyz"
UpperCase == "ABCDEFGHIJKLMNOPQRSTUVWXYZ"

\* the upper-case letter of each lower-case letter
UpperMap ==
    [c \in {SubSeq(LowerCase, i, i) : i \in 1..Len(LowerCase)} |->
        SubSeq(UpperCase, Find(LowerCase, c) + 1, Find(LowerCase, c) + 1)]

\* char::to_ascii_uppercase
UpperChar(c) == IF c \in DOMAIN UpperMap THEN UpperMap[c] ELSE c

\* str::to_ascii_uppercase; str::to_uppercase agrees with it on ASCII text
RECURSIVE ToUppercase(_)
ToUppercase(s) ==
    IF Len(s) = 0 THEN "" ELSE UpperChar(SubSeq(s, 1, 1)) \o ToUppercase(SliceFrom(s, 1))

HexDigits == "0123456789ABCDEF"
HexDigit(d) == SubSeq(HexDigits, d + 1, d + 1)

\* the hexadecimal digits of n >= 0, most significant first, none for 0
RECURSIVE HexOf(_)
HexOf(n) == IF n = 0 THEN "" ELSE HexOf(n \div 16) \o HexDigit(n % 16)

RECURSIVE Zeros(_)
Zeros(k) == IF k <= 0 THEN "" ELSE "0" \o Zeros(k - 1)

RECURSIVE Invert(_)
Invert(h) ==
    IF Len(h) = 0 THEN ""
    ELSE HexDigit(15 - Find(HexDigits, SubSeq(h, 1, 1))) \o Invert(SliceFrom(h, 1))

\* format!("{n:X}") of an i64: upper-case digits, no prefix; a negative value is
\* written as its 64-bit two's complement, i.e. the digit-wise complement of
\* -n - 1 over sixteen digits
FormatUpperHex(n) ==
    IF n = 0 THEN "0"
    ELSE IF n > 0 THEN HexOf(n)
    ELSE LET m == HexOf(-n - 1) IN Invert(Zeros(16 - Len(m)) \o m)

DecDigits == "0123456789"
IsDigits(s) == Len(s) > 0 /\ \A i \in 1..Len(s) : Contains(DecDigits, SubSeq(s, i, i))

RECURSIVE DecValue(_)
DecValue(s) ==
    IF Len(s) = 0 THEN 0
    ELSE 10 * DecValue(SliceTo(s, Len(s) - 1)) + Find(DecDigits, SubSeq(s, Len(s), Len(s)))

\* str::parse::<i64>: an optional sign, then one or more decimal digits
ParseI64(s) ==
    LET signed == Len(s) > 0 /\ SubSeq(s, 1, 1) \in {"+", "-"}
        digits == IF signed THEN SliceFrom(s, 1) ELSE s
    IN IF ~IsDigits(digits) THEN [ok |-> FALSE, val |-> 0]
       ELSE [ok |-> TRUE,
             val |-> IF signed /\ SubSeq(s, 1, 1) = "-" THEN -DecValue(digits)
                     ELSE DecValue(digits)]

-----------------------------------------------------------------------------
(* convert_to_wtf_error and generate_phf_map_var *)

EnumNotFound == "Could not find Error enum"
MalformedEnum == "Malformed Error enum"
InvalidOverrideCode == "ParseIntError"

NoResult == [tag |-> "None", text |-> "", error |-> ""]
Ok(text) == [tag |-> "Ok", text |-> text, error |-> ""]
Err(e) == [tag |-> "Err", text |-> "", error |-> e]
\* Option::unwrap on None: the thread panics, nothing is returned
Panicked == [tag |-> "Panic", text |-> "", error |-> ""]

generate_phf_map_var(var_name) ==
    "pub static " \o var_name \o ": phf::Map<&'static str, &'static str> = phf_map! {\n"

\* the words of the file name, lines 155-156
FileNamesSplit(fname) == Split(Replace(Replace(fname, ".rs", ""), "-", " "), " ")

\* lines 158-162
FileNameCapitalized(fname) ==
    LET words == FileNamesSplit(fname)
    IN Join([i \in 1..Len(words) |-> ToUppercase(words[i])], "_")

\* line 166
IsAnchor(fname) == Contains(fname, "anchor")

\* lines 168-174
StartingErrorNumber(fname, contents) ==
    IF IsAnchor(fname) THEN 100
    ELSE IF Contains(contents, "#[msg") THEN 6000
    ELSE 0

\* lines 183-189: s.get(0..1).unwrap() is None.unwrap() on an empty word
CapitalizePanics(words) == \E i \in 1..Len(words) : Len(words[i]) = 0

Capitalize(s) == ToUppercase(SubSeq(s, 1, 1)) \o SliceFrom(s, 1)

\* lines 176-192; `panics` when the third branch unwraps None
EnumName(fname) ==
    LET words == FileNamesSplit(fname)
    IN IF IsAnchor(fname) THEN [panics |-> FALSE, name |-> "ErrorCode"]
       ELSE IF FileNameCapitalized(fname) = "CANDY_CORE_ERROR"
            THEN [panics |-> FALSE, name |-> "CandyError"]
       ELSE IF CapitalizePanics(words) THEN [panics |-> TRUE, name |-> ""]
       ELSE [panics |-> FALSE,
             name |-> Join([i \in 1..Len(words) |-> Capitalize(words[i])], "")]

\* the branch conditions of lines 218-224 and 244
IsClosing(line) == StartsWith(line, "}")
IsSkipped(line) == StartsWith(line, "/") \/ Len(line) = 0
IsVariantLine(line) ==
    /\ ~StartsWith(line, "#[")
    /\ ~StartsWith(line, "\"")
    /\ ~EndsWith(line, "\"")
    /\ ~EndsWith(line, ")]")
IsAttributeLine(line) == StartsWith(line, "#[") /\ EndsWith(line, ")]")

\* lines 245-249
ParsedMessage(line) ==
    Replace(Replace(Replace(Replace(line, "#[", ""), "error(\"", ""), "msg(\"", ""), "\")]", "")

\* the value of parsed_error_line when nothing is pending, lines 209 and 257
EmptyPending == "\",\n"

\* line 254: whether the buffer is pushed at the end of an iteration
ShouldPush(pel) == Contains(pel, "=>")

\* lines 254-258, the tail of one loop iteration run with the buffer `pel` and the
\* counter `num` on the trimmed line `line`
EndOfIteration(line, pel, num) ==
    /\ processed' = Append(processed, line)
    /\ IF ShouldPush(pel)
       THEN /\ error_contents' = error_contents \o pel
            /\ starting_error_number' = num + 1
            /\ parsed_error_line' = EmptyPending
            /\ pushes' = Append(pushes, [at |-> Len(processed) + 1, code |-> num, text |-> pel])
       ELSE /\ error_contents' = error_contents
            /\ starting_error_number' = num
            /\ parsed_error_line' = pel
            /\ pushes' = pushes

Return(r) ==
    /\ result' = r
    /\ pc' = "done"

\* lines 155-192
Derive ==
    /\ pc = "derive"
    /\ file_name_capitalized' = FileNameCapitalized(file_name)
    /\ error_contents' = generate_phf_map_var(FileNameCapitalized(file_name))
    /\ starting_error_number' = StartingErrorNumber(file_name, file_contents)
    /\ enum_name' = EnumName(file_name).name
    /\ IF EnumName(file_name).panics
       THEN Return(Panicked)
       ELSE pc' = "locate" /\ result' = result
    /\ UNCHANGED <<file_name, file_contents, parsed_error_line, error_lines,
                   processed, pushes, lookupVars, feeVars>>

\* lines 194-209
Locate ==
    /\ pc = "locate"
    /\ LET error_index == Find(file_contents, enum_name)
           from == error_index + Len(enum_name) + 2
           trimmed_content == Trim(SliceFrom(file_contents, from))
       IN IF error_index = None THEN Return(Err(EnumNotFound)) /\ error_lines' = error_lines
          ELSE IF from > Len(file_contents)
               THEN Return(Err(MalformedEnum)) /\ error_lines' = error_lines
          ELSE IF ~Contains(trimmed_content, "}")
               THEN Return(Err(MalformedEnum)) /\ error_lines' = error_lines
          ELSE /\ error_lines' = Lines(trimmed_content)
               /\ pc' = "loop"
               /\ result' = result
    /\ parsed_error_line' = IF pc' = "loop" THEN EmptyPending ELSE parsed_error_line
    /\ UNCHANGED <<file_name, file_contents, file_name_capitalized, enum_name,
                   error_contents, starting_error_number, processed, pushes,
                   lookupVars, feeVars>>

\* lines 261-262
Finish ==
    /\ error_contents' = error_contents \o "};\n\n"
    /\ Return(Ok(error_contents \o "};\n\n"))

CurrentLine == Trim(Head(error_lines))

\* lines 214-216: break, then 261-262
LineClosing ==
    /\ pc = "loop" /\ error_lines # <<>>
    /\ IsClosing(CurrentLine)
    /\ Finish
    /\ processed' = Append(processed, CurrentLine)
    /\ error_lines' = Tail(error_lines)
    /\ UNCHANGED <<file_name, file_contents, file_name_capitalized, enum_name,
                   starting_error_number, parsed_error_line, pushes,
                   lookupVars, feeVars>>

\* the iterator is exhausted: the loop ends, then 261-262
LinesExhausted ==
    /\ pc = "loop" /\ error_lines = <<>>
    /\ Finish
    /\ UNCHANGED <<file_name, file_contents, file_name_capitalized, enum_name,
                   starting_error_number, parsed_error_line, error_lines,
                   processed, pushes, lookupVars, feeVars>>

\* lines 218-219: continue
LineSkipped ==
    /\ pc = "loop" /\ error_lines # <<>>
    /\ ~IsClosing(CurrentLine) /\ IsSkipped(CurrentLine)
    /\ processed' = Append(processed, CurrentLine)
    /\ error_lines' = Tail(error_lines)
    /\ UNCHANGED <<file_name, file_contents, pc, file_name_capitalized, enum_name,
                   error_contents, starting_error_number, parsed_error_line,
                   result, pushes, lookupVars, feeVars>>

\* lines 225-243 on a variant line: the symbol, the counter it sets, or the error
VariantParse(line, num) ==
    LET enum_end_index == Find(line, ",")
        error_enum == SliceTo(line, enum_end_index)
        error_code_combo == Split(error_enum, "=")
        parsed == ParseI64(Trim(error_code_combo[2]))
    IN IF enum_end_index = None THEN [error |-> MalformedEnum, symbol |-> "", code |-> num]
       ELSE IF ~Contains(error_enum, "=") THEN [error |-> "", symbol |-> error_enum, code |-> num]
       ELSE IF ~parsed.ok THEN [error |-> InvalidOverrideCode, symbol |-> "", code |-> num]
       ELSE [error |-> "", symbol |-> Trim(error_code_combo[1]), code |-> parsed.val]

\* lines 242-243
RenderEntry(code, symbol, pel) ==
    "    \"" \o FormatUpperHex(code) \o "\" => \"" \o symbol \o pel

\* lines 220-243, then 254-258
LineVariant ==
    /\ pc = "loop" /\ error_lines # <<>>
    /\ ~IsClosing(CurrentLine) /\ ~IsSkipped(CurrentLine)
    /\ IsVariantLine(CurrentLine)
    /\ LET v == VariantParse(CurrentLine, starting_error_number)
       IN IF v.error # ""
          THEN /\ Return(Err(v.error))
               /\ processed' = Append(processed, CurrentLine)
               /\ UNCHANGED <<error_contents, starting_error_number,
                              parsed_error_line, pushes>>
          ELSE /\ EndOfIteration(CurrentLine,
                                 RenderEntry(v.code, v.symbol, parsed_error_line), v.code)
               /\ UNCHANGED <<pc, result>>
    /\ error_lines' = Tail(error_lines)
    /\ UNCHANGED <<file_name, file_contents, file_name_capitalized, enum_name,
                   lookupVars, feeVars>>

\* lines 244-252, then 254-258
LineAttribute ==
    /\ pc = "loop" /\ error_lines # <<>>
    /\ ~IsClosing(CurrentLine) /\ ~IsSkipped(CurrentLine)
    /\ ~IsVariantLine(CurrentLine) /\ IsAttributeLine(CurrentLine)
    /\ EndOfIteration(CurrentLine, ": " \o ParsedMessage(CurrentLine) \o "\",\n",
                      starting_error_number)
    /\ error_lines' = Tail(error_lines)
    /\ UNCHANGED <<file_name, file_contents, pc, file_name_capitalized, enum_name,
                   result, lookupVars, feeVars>>

\* neither branch of lines 220-252 is taken, then 254-258
LineOther ==
    /\ pc = "loop" /\ error_lines # <<>>
    /\ ~IsClosing(CurrentLine) /\ ~IsSkipped(CurrentLine)
    /\ ~IsVariantLine(CurrentLine) /\ ~IsAttributeLine(CurrentLine)
    /\ EndOfIteration(CurrentLine, parsed_error_line, starting_error_number)
    /\ error_lines' = Tail(error_lines)
    /\ UNCHANGED <<file_name, file_contents, pc, file_name_capitalized, enum_name,
                   result, lookupVars, feeVars>>

-----------------------------------------------------------------------------
(* The inputs convert_to_wtf_error is run on *)

\* the longest enumeration body, in lines
MaxLines == 3

FileNames == {"anchor.rs", "metadata-error.rs", "candy-core-error.rs", "candy--error.rs"}

\* what the source holds up to the enumeration body; the last one ends the text
\* right after the name
Heads == {"pub enum ErrorCode {\n", "pub enum MetadataError {\n",
          "pub enum CandyError {\n", "pub enum ErrorCode"}

BodyLines == {"Foo,", "Overflow = 6010,", "Neg = -1,", "Bad = x,", "NoComma",
              "#[msg(\"m\")]", "#[msg(\"a => b\")]", "#[error(\"e\")]",
              "// c }", "", "\"frag\""}

Tails == {"}\n", ""}

Bodies == UNION {[1..n -> BodyLines] : n \in 0..MaxLines}

RECURSIVE BodyText(_)
BodyText(body) ==
    IF Len(body) = 0 THEN "" ELSE "    " \o Head(body) \o "\n" \o BodyText(Tail(body))

\* a head that does not hold the enumeration's name is tried with the empty body only
BodiesFor(fname, head) ==
    {b \in Bodies : \/ Len(b) = 0
                    \/ (~EnumName(fname).panics /\ Contains(head, EnumName(fname).name))}

Sources(fname) ==
    UNION {{h \o BodyText(b) \o t : b \in BodiesFor(fname, h), t \in Tails} : h \in Heads}

ParserInit ==
    /\ file_name \in FileNames
    /\ file_contents \in Sources(file_name)
    /\ pc = "derive"
    /\ file_name_capitalized = ""
    /\ enum_name = ""
    /\ error_contents = ""
    /\ starting_error_number = 0
    /\ parsed_error_line = ""
    /\ error_lines = <<>>
    /\ result = NoResult
    /\ processed = <<>>
    /\ pushes = <<>>

ParserIdle ==
    /\ file_name = ""
    /\ file_contents = ""
    /\ pc = "done"
    /\ file_name_capitalized = ""
    /\ enum_name = ""
    /\ error_contents = ""
    /\ starting_error_number = 0
    /\ parsed_error_line = ""
    /\ error_lines = <<>>
    /\ result = NoResult
    /\ processed = <<>>
    /\ pushes = <<>>

-----------------------------------------------------------------------------
(* find_errors and find_tm_error *)

\* the static tables of crate::wtf_errors, keyed by upper-case hexadecimal codes
TableNames == <<"ANCHOR_ERROR", "METADATA_ERROR", "AUCTION_HOUSE_ERROR",
                "AUCTIONEER_ERROR", "CANDY_ERROR", "CANDY_CORE_ERROR",
                "CANDY_GUARD_ERROR">>

KeySets == {{}, {"1A"}, {"1A", "A1"}}

TableValue(table, key) == table \o " " \o key

TableNameSet == {TableNames[i] : i \in 1..Len(TableNames)}

Catalogs ==
    {[t \in TableNameSet |-> [k \in ks[t] |-> TableValue(t, k)]] :
        ks \in [TableNameSet -> KeySets]}

\* the longest code string looked up
MaxCodeLen == 2

CodeChars == {"1", "a", "A"}

RECURSIVE CodesOfLen(_)
CodesOfLen(n) ==
    IF n = 0 THEN {""} ELSE {c \o s : c \in CodeChars, s \in CodesOfLen(n - 1)}

Codes == UNION {CodesOfLen(n) : n \in 0..MaxCodeLen}

\* phf::Map::get
MapGet(table, key) == IF key \in DOMAIN table THEN <<table[key]>> ELSE <<>>

\* one `if let Some(e) = TABLE.get(&hex_code).cloned() { found_errors.push(..) }`
Probe(found, table, domain, key) ==
    IF MapGet(table, key) # <<>>
    THEN Append(found, [domain |-> domain, message |-> MapGet(table, key)[1]])
    ELSE found

\* line 266 without the to_uppercase call
NormalizeKeepsCase(code) == code

\* line 266
Normalize(code) == ToUppercase(code)

\* lines 265-319
find_errors(cat, code) ==
    LET key == Normalize(code)
        f1 == Probe(<<>>, cat["ANCHOR_ERROR"], "Anchor Program", key)
        f2 == Probe(f1, cat["METADATA_ERROR"], "Token Metadata", key)
        f3 == Probe(f2, cat["AUCTION_HOUSE_ERROR"], "Auction House", key)
        f4 == Probe(f3, cat["AUCTIONEER_ERROR"], "Auctioneer", key)
        f5 == Probe(f4, cat["CANDY_ERROR"], "Candy Machine", key)
        f6 == Probe(f5, cat["CANDY_CORE_ERROR"], "Candy Core", key)
        f7 == Probe(f6, cat["CANDY_GUARD_ERROR"], "Candy Guard", key)
    IN f7

LookupInit ==
    /\ catalog \in Catalogs
    /\ hex_code = ""
    /\ found_errors = <<>>
    /\ lpc = "idle"

LookupIdle ==
    /\ catalog = [t \in {} |-> <<>>]
    /\ hex_code = ""
    /\ found_errors = <<>>
    /\ lpc = "idle"

\* the call of find_errors a run of the `find error` command makes; the catalog is
\* read, never written
FindErrors ==
    /\ lpc = "idle"
    /\ \E code \in Codes :
        /\ hex_code' = code
        /\ found_errors' = find_errors(catalog, code)
    /\ lpc' = "returned"
    /\ UNCHANGED <<catalog, parserVars, feeVars>>

-----------------------------------------------------------------------------
(* calculate_priority_fees and calculate_units_consumed *)

ComputeUnitLimit == 1000000
PadComputeUnits == 20000
MicroLamportsPerLamport == 1000000
MinFeeNumerator == 1400000

\* the simulated compute units tried are the multiples of UnitStep up to the limit
UnitStep == 20000
\* the largest recent prioritization fee tried
MaxRecentFee == 3

UnitsConsumed == {k * UnitStep : k \in 0..(ComputeUnitLimit \div UnitStep)} \cup {ComputeUnitLimit}

NoFee == [tag |-> "None", fee |-> 0, compute |-> 0]

FeeInit ==
    /\ fpc = "simulate"
    /\ compute_units = 0
    /\ max_fee = 0
    /\ priority_fee_lamports = 0
    /\ confirmation = FALSE
    /\ fee_result = NoFee

FeeIdle ==
    /\ fpc = "done"
    /\ compute_units = 0
    /\ max_fee = 0
    /\ priority_fee_lamports = 0
    /\ confirmation = FALSE
    /\ fee_result = NoFee

\* line 52
ShownFee(mf, units) == Max((mf * units) \div MicroLamportsPerLamport, 1)

\* line 67
PaddedCompute(units) == units + PadComputeUnits

\* line 69
FeeFor(mf, compute) == Max(mf, MinFeeNumerator \div compute)

\* lines 33-52: the simulation and the fee query answer
Simulate ==
    /\ fpc = "simulate"
    /\ \E units \in UnitsConsumed, mf \in 0..MaxRecentFee :
        /\ compute_units' = units
        /\ max_fee' = mf
        /\ priority_fee_lamports' = ShownFee(mf, units)
    /\ fpc' = "prompt"
    /\ UNCHANGED <<confirmation, fee_result, parserVars, lookupVars>>

\* lines 33, 43: a client call fails, or the simulation reports no units
RpcFails ==
    /\ fpc = "simulate"
    /\ fee_result' = [tag |-> "Err", fee |-> 0, compute |-> 0]
    /\ fpc' = "done"
    /\ UNCHANGED <<compute_units, max_fee, priority_fee_lamports, confirmation,
                   parserVars, lookupVars>>

\* lines 55-64: the user declines
Decline ==
    /\ fpc = "prompt"
    /\ confirmation' = FALSE
    /\ fee_result' = [tag |-> "Err", fee |-> 0, compute |-> 0]
    /\ fpc' = "done"
    /\ UNCHANGED <<compute_units, max_fee, priority_fee_lamports, parserVars, lookupVars>>

\* lines 55-71: the user confirms
Confirm ==
    /\ fpc = "prompt"
    /\ confirmation' = TRUE
    /\ fee_result' = [tag |-> "Ok",
                      fee |-> FeeFor(max_fee, PaddedCompute(compute_units)),
                      compute |-> PaddedCompute(compute_units)]
    /\ fpc' = "done"
    /\ UNCHANGED <<compute_units, max_fee, priority_fee_lamports, parserVars, lookupVars>>

-----------------------------------------------------------------------------
(* Specifications *)

Init == ParserInit /\ LookupIdle /\ FeeIdle

Next ==
    \/ Derive
    \/ Locate
    \/ LineClosing
    \/ LinesExhausted
    \/ LineSkipped
    \/ LineVariant
    \/ LineAttribute
    \/ LineOther

Spec == Init /\ [][Next]_vars

LookupSpecInit == ParserIdle /\ LookupInit /\ FeeIdle

LookupNext == FindErrors

SpecLookup == LookupSpecInit /\ [][LookupNext]_vars

FeeSpecInit == ParserIdle /\ LookupIdle /\ FeeInit

FeeNext ==
    \/ Simulate
    \/ RpcFails
    \/ Decline
    \/ Confirm

SpecFees == FeeSpecInit /\ [][FeeNext]_vars

-----------------------------------------------------------------------------
(* Vocabulary of the properties of convert_to_wtf_error *)

\* the loop body treated line i of `processed` as a variant line
VariantAt(i) ==
    /\ ~IsClosing(processed[i]) /\ ~IsSkipped(processed[i])
    /\ IsVariantLine(processed[i])

\* it treated it as an attribute line
AttributeAt(i) ==
    /\ ~IsClosing(processed[i]) /\ ~IsSkipped(processed[i])
    /\ ~IsVariantLine(processed[i]) /\ IsAttributeLine(processed[i])

\* the text of a variant line before its first comma
BeforeComma(line) == SliceTo(line, Find(line, ","))

\* the variant line carries an explicit `= N`
HasOverride(line) == Contains(BeforeComma(line), "=")

OverrideSymbol(line) == Trim(Split(BeforeComma(line), "=")[1])
OverrideCode(line) == ParseI64(Trim(Split(BeforeComma(line), "=")[2])).val

\* the entries: the pushes made while a variant line was processed, in order
IsEntry(p) == VariantAt(p.at)
Entries == SelectSeq(pushes, IsEntry)

\* the line an entry was rendered from
LineOf(e) == processed[e.at]

SymbolOf(e) == IF HasOverride(LineOf(e)) THEN OverrideSymbol(LineOf(e)) ELSE BeforeComma(LineOf(e))

\* the attribute lines processed after line `from` and before line `to`
AttributesBetween(from, to) == {j \in (from + 1)..(to - 1) : AttributeAt(j)}

Last(S) == CHOOSE j \in S : \A k \in S : k <= j

\* the position in `processed` of the entry before entry i, 0 for the first
PreviousEntryAt(i) == IF i = 1 THEN 0 ELSE Entries[i - 1].at

\* the source text that follows the enumeration's name
AfterName == SliceFrom(file_contents, Find(file_contents, enum_name) + Len(enum_name))

NameFound == pc \in {"loop", "done"} /\ result.tag # "Panic" /\ Find(file_contents, enum_name) # None

\* some line after the name starts, once trimmed, with the closing brace
HasClosingLine ==
    \E i \in 1..Len(Lines(AfterName)) : StartsWith(Trim(Lines(AfterName)[i]), "}")

-----------------------------------------------------------------------------
(* Properties *)

\* the catalog order of the display names, beside TableNames
DomainNames == <<"Anchor Program", "Token Metadata", "Auction House", "Auctioneer",
                 "Candy Machine", "Candy Core", "Candy Guard">>

\* the domains whose table holds the key
Hits(key) == {i \in 1..Len(TableNames) : key \in DOMAIN catalog[TableNames[i]]}

\* C1: find_errors(c) returns exactly one FoundError {domain name, table value} for
\* each domain whose table holds the key uppercase(c) and nothing for any other
\* domain, in the catalog order Anchor Program .. Candy Guard; so a code no domain
\* holds yields the empty sequence, a code one domain holds yields one result, and
\* two inputs that differ only in letter case yield identical results.
C1_FindErrorsAllDomainsInOrder ==
    lpc = "returned" =>
        LET key == ToUppercase(hex_code)
            hits == Hits(key)
        IN /\ Len(found_errors) = Cardinality(hits)
           /\ \A i \in hits :
                LET j == Cardinality({h \in hits : h <= i})
                IN found_errors[j] = [domain |-> DomainNames[i],
                                      message |-> catalog[TableNames[i]][key]]
           /\ (hits = {} => found_errors = <<>>)
           /\ (Cardinality(hits) = 1 => Len(found_errors) = 1)
           /\ \A other \in Codes :
                ToUppercase(other) = key => find_errors(catalog, other) = found_errors

\* C1 witness: a lower-case code held by the metadata and the auction-house domain
\* only has been looked up, and the two results came back
C1_Witness ==
    /\ lpc = "returned"
    /\ hex_code = "1a"
    /\ Hits("1A") = {2, 3}
    /\ Len(found_errors) = 2
    /\ found_errors[1].domain = "Token Metadata"
    /\ found_errors[2].domain = "Auction House"

\* C2: for two consecutive entries i and i+1, in declaration order, where entry i+1
\* carries no explicit override, code[i+1] = code[i] + 1, whatever comment, blank,
\* attribute or quoted-fragment lines lie between the two variant lines.
C2_AutoIncrementByOne ==
    \A i \in 1..(Len(Entries) - 1) :
        ~HasOverride(LineOf(Entries[i + 1])) => Entries[i + 1].code = Entries[i].code + 1

\* C3: the entry of a variant line `SYMBOL = N,` has code N and symbol SYMBOL, and
\* the next entry that has no override of its own gets code N + 1.
C3_OverrideSetsCodeAndNext ==
    \A i \in 1..Len(Entries) :
        HasOverride(LineOf(Entries[i])) =>
            /\ Entries[i].code = OverrideCode(LineOf(Entries[i]))
            /\ StartsWith(Entries[i].text,
                          "    \"" \o FormatUpperHex(OverrideCode(LineOf(Entries[i])))
                              \o "\" => \"" \o OverrideSymbol(LineOf(Entries[i])))
            /\ (i < Len(Entries) /\ ~HasOverride(LineOf(Entries[i + 1]))
                    => Entries[i + 1].code = OverrideCode(LineOf(Entries[i])) + 1)

\* C4: when the enumeration's name is found but no line after it starts, once
\* trimmed, with the closing brace, the call fails with MalformedEnum and returns
\* no mapping; a successful parse is reached only by meeting such a line.
C4_MissingCloseIsMalformed ==
    (pc = "done" /\ NameFound) =>
        /\ (~HasClosingLine => result = Err(MalformedEnum))
        /\ (result.tag = "Ok" =>
                Len(processed) > 0 /\ IsClosing(processed[Len(processed)]))

\* C5: the call ends in exactly one of a rendered mapping, EnumNotFound,
\* MalformedEnum or InvalidOverrideCode; it never aborts in any other way, the
\* derivation of the enumeration's name from the file name included, and an error
\* carries no partial mapping.
C5_FourOutcomesOnly ==
    pc = "done" =>
        \/ result.tag = "Ok" /\ result.error = ""
        \/ /\ result.tag = "Err"
           /\ result.error \in {EnumNotFound, MalformedEnum, InvalidOverrideCode}
           /\ result.text = ""

\* C6: each entry's value is `symbol: message`, the message being that of the most
\* recent attribute line seen since the previous entry (or the start), and the
\* symbol alone when no attribute line was seen in between; the pending buffer is
\* empty right after every push, and every push is such an entry.
C6_MessageOfLatestAttribute ==
    /\ \A i \in 1..Len(pushes) : IsEntry(pushes[i])
    /\ \A i \in 1..Len(Entries) :
        LET attrs == AttributesBetween(PreviousEntryAt(i), Entries[i].at)
            value == IF attrs = {} THEN SymbolOf(Entries[i])
                     ELSE SymbolOf(Entries[i]) \o ": " \o ParsedMessage(processed[Last(attrs)])
        IN Entries[i].text =
               "    \"" \o FormatUpperHex(Entries[i].code) \o "\" => \"" \o value \o "\",\n"
    /\ (pc = "loop" /\ Len(pushes) > 0 /\ pushes[Len(pushes)].at = Len(processed)
            => parsed_error_line = EmptyPending)

\* C7: the code of the first entry, when it has no explicit override, is 100 if the
\* file name contains "anchor", else 6000 if the source contains "#[msg", else 0.
C7_FirstCodeIsStartingCode ==
    (Len(Entries) > 0 /\ ~HasOverride(LineOf(Entries[1]))) =>
        Entries[1].code = IF Contains(file_name, "anchor") THEN 100
                          ELSE IF Contains(file_contents, "#[msg") THEN 6000
                          ELSE 0

C9_OnlyVariantLinesEmit ==
    /\ \A i \in 1..Len(pushes) : VariantAt(pushes[i].at)
    /\ (pc = "done" /\ result.tag = "Ok"
            => Len(pushes) = Cardinality({i \in 1..Len(processed) : VariantAt(i)}))

\* C10: once the user confirms, the returned fee and compute satisfy
\* fee * compute / 1000000 >= 1 (integer division), for every simulated
\* compute_units in 0..1000000 and every max fee >= 0; and the fee shown to the
\* user is at least 1.
C10_AtLeastOneLamport ==
    (fpc = "done" /\ fee_result.tag = "Ok") =>
        /\ (fee_result.fee * fee_result.compute) \div MicroLamportsPerLamport >= 1
        /\ priority_fee_lamports >= 1

====
